---- MODULE Spec2Model ----
(***************************************************************************)
(* Model of the selector-discovery scripts                                 *)
(*   src/rewst_workflows/package-tracking/usps_discover_selectors.py       *)
(*   src/rewst_workflows/package-tracking/17track_discover_selectors.py    *)
(* Both scripts dump the rendered page (HTML, screenshot, title, body      *)
(* text) and then run the same loop over selectors_to_try; the line        *)
(* numbers quoted below are those of the USPS script.                      *)
(*                                                                         *)
(* A text is a sequence of one-character strings.  The printed report is   *)
(* a sequence of lines, each a record: a FOUND line or a preview line.     *)
(***************************************************************************)
EXTENDS Integers, Sequences

VARIABLES
    pc,         \* position in the script
    pageOpen,   \* the page handle can still be queried
    static,     \* TRUE: the DOM is an unchanging snapshot (dom); FALSE: the
                \* page's scripts keep rewriting it, a query may return anything
    dom,        \* the snapshot: selector -> what query_selector_all gives
    selectors,  \* selectors_to_try
    si,         \* 1-based position of the for loop in selectors_to_try
    elements,   \* the local `elements`: what the latest successful query returned
    reads,      \* indices i on which el.inner_text() was called in that iteration
    emitted,    \* the lines that iteration printed
    report,     \* every line printed by the loop so far
    queried,    \* history: one record per query_selector_all call made
    shadow,     \* the report of the same run with every failed query
                \* replaced by a query that matches nothing
    artifacts,  \* diagnostic artifacts produced so far
    call,       \* which call of the loop is running (1 or 2)
    firstReport,\* the report of the first call, once the second started
    domBefore   \* the DOM as it was when the running call started

vars == <<pc, pageOpen, static, dom, selectors, si, elements, reads, emitted,
          report, queried, shadow, artifacts, call, firstReport, domBefore>>

----------------------------------------------------------------------------
(* Program constants *)

PreviewLimit == 150
PreviewCount == 2

(* Bounds of the model *)

MaxSelectors == 2
MaxElems == 3
MaxAffix == 2

----------------------------------------------------------------------------
(* Texts *)

NL == "\n"
Whitespace == {" ", NL, "\t"}
Chars == {"a", " ", NL, "\t"}

Min(a, b) == IF a < b THEN a ELSE b

\* text[:n]
Truncate(t, n) == SubSeq(t, 1, Min(Len(t), n))

\* a replacement that stops after the first newline: text.replace('\n', ' ', 1)
RECURSIVE ReplaceFirstNewline(_)
ReplaceFirstNewline(t) ==
    IF t = <<>> THEN <<>>
    ELSE IF Head(t) = NL THEN <<" ">> \o Tail(t)
    ELSE <<Head(t)>> \o ReplaceFirstNewline(Tail(t))

\* text.replace('\n', ' ')
ReplaceNewlines(t) == [k \in 1..Len(t) |-> IF t[k] = NL THEN " " ELSE t[k]]

\* the first position from k on, going up, that holds no whitespace
RECURSIVE FirstInk(_, _)
FirstInk(t, k) ==
    IF k > Len(t) \/ t[k] \notin Whitespace THEN k ELSE FirstInk(t, k + 1)

\* the last position from k on, going down, that holds no whitespace
RECURSIVE LastInk(_, _)
LastInk(t, k) ==
    IF k < 1 \/ t[k] \notin Whitespace THEN k ELSE LastInk(t, k - 1)

\* a trim of the right end only: text.rstrip()
StripRight(t) == SubSeq(t, 1, LastInk(t, Len(t)))

\* text.strip()
Strip(t) == SubSeq(t, FirstInk(t, 1), LastInk(t, Len(t)))

\* el.inner_text()[:150].replace('\n', ' ').strip()
Preview(t) == Strip(ReplaceNewlines(Truncate(t, PreviewLimit)))

----------------------------------------------------------------------------
(* The page *)

SelNames == {"h1", ".status"}

Fill(n) == [k \in 1..n |-> "a"]

BlankText == <<" ", NL>>
PaddedText == <<" ", "P", NL, "S", " ">>

Attached(t) == [attached |-> TRUE, text |-> t]
Detached == [attached |-> FALSE, text |-> <<>>]

\* the elements a page of the main run can hold
ElementKinds == {Attached(BlankText), Attached(PaddedText), Detached}

\* the sequences over S of length at most n
SeqsUpTo(S, n) == UNION {[1..k -> S] : k \in 0..n}

ElementLists == SeqsUpTo(ElementKinds, MaxElems)

Raised == [raised |-> TRUE, elements |-> <<>>]
Matched(els) == [raised |-> FALSE, elements |-> els]

\* everything one query_selector_all call can do
Outcomes == {Raised} \cup {Matched(els) : els \in ElementLists}

NoMatch == [s \in SelNames |-> Matched(<<>>)]

\* what a frozen page can hold once rendered: each selector fails, matches
\* nothing, or matches elements that can or cannot be read
ReadOrNot == {Attached(PaddedText), Detached}

Renderings ==
    [SelNames -> {Raised} \cup {Matched(els) : els \in SeqsUpTo(ReadOrNot, MaxElems)}]

\* page.query_selector_all(selector): the outcomes the call can have.  A
\* closed page raises; a static page answers from the snapshot.
QuerySelectorAll(d, open, fixed, sel) ==
    IF ~open THEN {Raised}
    ELSE IF fixed THEN {d[sel]}
    ELSE Outcomes

\* a probe that takes the first matched element out of the document
DomAfterProbeConsumes(d, sel) ==
    IF d[sel].raised \/ d[sel].elements = <<>> THEN d
    ELSE [d EXCEPT ![sel] = Matched(Tail(d[sel].elements))]

\* the DOM after page.query_selector_all and el.inner_text: both only read
DomAfterProbe(d, sel) == d

----------------------------------------------------------------------------
(* One iteration of the for loop *)

FoundLine(sel, n) == [kind |-> "found", selector |-> sel, count |-> n, i |-> 0, text |-> <<>>]
PreviewLine(sel, k, t) == [kind |-> "preview", selector |-> sel, count |-> 0, i |-> k, text |-> t]

\* no slice: every matched element is previewed
ElementsToPreviewAll(els) == els

\* elements[:2]
ElementsToPreview(els) == SubSeq(els, 1, Min(Len(els), PreviewCount))

\* the 1-based position of the first element whose inner_text() raises, or
\* one past the end
RECURSIVE FirstUnreadable(_, _)
FirstUnreadable(els, k) ==
    IF k > Len(els) \/ ~els[k].attached THEN k ELSE FirstUnreadable(els, k + 1)

HasText(l) == l.text # <<>>

\* for i, el in enumerate(elements[:2]): text = ...; if text: print(...)
\* el.inner_text() on a detached element raises, which leaves the loop: the
\* elements before it are printed, the ones after it are not read.
PreviewLoop(sel, els) ==
    [lines |-> SelectSeq([k \in 1..(FirstUnreadable(els, 1) - 1) |->
                              PreviewLine(sel, k - 1, Preview(els[k].text))],
                         HasText),
     reads |-> {k - 1 : k \in 1..Min(FirstUnreadable(els, 1), Len(els))},
     raised |-> FirstUnreadable(els, 1) <= Len(els)]

\* the try statement without `if elements:`: a FOUND line for an empty match
TryBodyReportsEmpty(sel, o) ==
    IF o.raised THEN [lines |-> <<>>, reads |-> {}, escapes |-> FALSE]
    ELSE LET loop == PreviewLoop(sel, ElementsToPreview(o.elements))
         IN  [lines |-> <<FoundLine(sel, Len(o.elements))>> \o loop.lines,
              reads |-> loop.reads,
              escapes |-> FALSE]

\* the try statement with a handler that prints the failure
TryBodyLogsFailure(sel, o) ==
    IF o.raised
      THEN [lines |-> <<[kind |-> "error", selector |-> sel, count |-> 0, i |-> 0,
                         text |-> <<>>]>>,
            reads |-> {}, escapes |-> FALSE]
    ELSE IF o.elements = <<>> THEN [lines |-> <<>>, reads |-> {}, escapes |-> FALSE]
    ELSE LET loop == PreviewLoop(sel, ElementsToPreview(o.elements))
         IN  [lines |-> <<FoundLine(sel, Len(o.elements))>> \o loop.lines,
              reads |-> loop.reads,
              escapes |-> FALSE]

\* the try statement with a handler too narrow to catch what the page raises
TryBodyUncaught(sel, o) ==
    IF o.raised THEN [lines |-> <<>>, reads |-> {}, escapes |-> TRUE]
    ELSE IF o.elements = <<>> THEN [lines |-> <<>>, reads |-> {}, escapes |-> FALSE]
    ELSE LET loop == PreviewLoop(sel, ElementsToPreview(o.elements))
         IN  [lines |-> <<FoundLine(sel, Len(o.elements))>> \o loop.lines,
              reads |-> loop.reads,
              escapes |-> loop.raised]

\* the try statement: what it prints, which elements it reads, and whether an
\* exception leaves it.  `except Exception: pass` lets none out.
TryBody(sel, o) ==
    IF o.raised THEN [lines |-> <<>>, reads |-> {}, escapes |-> FALSE]
    ELSE IF o.elements = <<>> THEN [lines |-> <<>>, reads |-> {}, escapes |-> FALSE]
    ELSE LET loop == PreviewLoop(sel, ElementsToPreview(o.elements))
         IN  [lines |-> <<FoundLine(sel, Len(o.elements))>> \o loop.lines,
              reads |-> loop.reads,
              escapes |-> FALSE]

\* a failed query seen as a query that matched nothing
AsNoMatch(o) == IF o.raised THEN Matched(<<>>) ELSE o

----------------------------------------------------------------------------
(* The script *)

AllArtifacts == {"html", "screenshot", "title", "body"}

SelectorLists == SeqsUpTo(SelNames, MaxSelectors)

Idle ==
    /\ si = 1
    /\ elements = <<>>
    /\ reads = {}
    /\ emitted = <<>>
    /\ report = <<>>
    /\ queried = <<>>
    /\ shadow = <<>>
    /\ call = 1
    /\ firstReport = <<>>
    /\ domBefore = dom

\* the page is created, before page.goto(url)
Init ==
    /\ pc = "goto"
    /\ pageOpen = TRUE
    /\ static = FALSE
    /\ dom = NoMatch
    /\ selectors \in SelectorLists
    /\ artifacts = {}
    /\ Idle

\* a step of the dump: a page call that raises on a closed page, uncaught
Dump(here, artifact, next) ==
    /\ pc = here
    /\ IF pageOpen
         THEN /\ artifacts' = artifacts \cup {artifact}
              /\ pc' = next
         ELSE /\ artifacts' = artifacts
              /\ pc' = "failed"
    /\ UNCHANGED <<pageOpen, static, dom, selectors, si, elements, reads, emitted,
                   report, queried, shadow, call, firstReport, domBefore>>

\* page.goto(url, wait_until="networkidle", timeout=60000) and the waits: the
\* page renders, or the navigation times out, uncaught.  A frozen page gets
\* its content here.
Navigate ==
    /\ pc = "goto"
    /\ \/ /\ pc' = "content"
          /\ dom' \in (IF static THEN Renderings ELSE {dom})
       \/ /\ pc' = "failed"
          /\ dom' = dom
    /\ domBefore' = dom'
    /\ UNCHANGED <<pageOpen, static, selectors, si, elements, reads, emitted,
                   report, queried, shadow, artifacts, call, firstReport>>

SaveHtml == Dump("content", "html", "screenshot")
Screenshot == Dump("screenshot", "screenshot", "title")
Title == Dump("title", "title", "body")
BodyText == Dump("body", "body", "probe")

\* one iteration: for selector in selectors_to_try: try: ... except: pass
ProbeSelector ==
    /\ pc = "probe"
    /\ si <= Len(selectors)
    /\ si' = si + 1
    /\ \E o \in QuerySelectorAll(dom, pageOpen, static, selectors[si]) :
         \E r \in {TryBody(selectors[si], o)} :
            /\ pc' = IF r.escapes THEN "failed" ELSE "probe"
            /\ elements' = IF o.raised THEN elements ELSE o.elements
            /\ reads' = r.reads
            /\ emitted' = r.lines
            /\ report' = report \o r.lines
            /\ shadow' = shadow \o TryBody(selectors[si], AsNoMatch(o)).lines
            /\ queried' = Append(queried, [selector |-> selectors[si], raised |-> o.raised,
                                           count |-> Len(o.elements), open |-> pageOpen])
            /\ dom' = DomAfterProbe(dom, selectors[si])
    /\ UNCHANGED <<pageOpen, static, selectors, artifacts, call, firstReport, domBefore>>

\* the for loop is exhausted
LoopExit ==
    /\ pc = "probe"
    /\ si > Len(selectors)
    /\ pc' = "close"
    /\ UNCHANGED <<pageOpen, static, dom, selectors, si, elements, reads, emitted,
                   report, queried, shadow, artifacts, call, firstReport, domBefore>>

\* browser.close()
BrowserClose ==
    /\ pc = "close"
    /\ pc' = "done"
    /\ pageOpen' = FALSE
    /\ UNCHANGED <<static, dom, selectors, si, elements, reads, emitted,
                   report, queried, shadow, artifacts, call, firstReport, domBefore>>

\* the page dies under the script (crash, window closed by hand)
PageCloses ==
    /\ pc \notin {"done", "failed"}
    /\ pageOpen
    /\ pageOpen' = FALSE
    /\ UNCHANGED <<pc, static, dom, selectors, si, elements, reads, emitted,
                   report, queried, shadow, artifacts, call, firstReport, domBefore>>

Script == Navigate \/ SaveHtml \/ Screenshot \/ Title \/ BodyText
            \/ ProbeSelector \/ LoopExit \/ BrowserClose

Next == Script \/ PageCloses

Spec == Init /\ [][Next]_vars

\* The script is one sequential thread: a page call returns or raises, so the
\* script takes its next step whenever it has one.  The run is against a page
\* that renders once and then stays as it is, though it may still die at any
\* moment.
InitFair ==
    /\ pc = "goto"
    /\ pageOpen = TRUE
    /\ static = TRUE
    /\ dom = NoMatch
    /\ selectors \in SelectorLists
    /\ artifacts = {}
    /\ Idle

FairSpec == InitFair /\ [][Next]_vars /\ WF_vars(Script)

----------------------------------------------------------------------------
(* The loop alone, run against a frozen page *)

Probe == ProbeSelector \/ LoopExit

\* a second call of the loop on the same page: a fresh report, fresh locals
SecondCall ==
    /\ pc = "close"
    /\ call = 1
    /\ call' = 2
    /\ firstReport' = report
    /\ domBefore' = dom
    /\ pc' = "probe"
    /\ si' = 1
    /\ elements' = <<>>
    /\ reads' = {}
    /\ emitted' = <<>>
    /\ report' = <<>>
    /\ queried' = <<>>
    /\ shadow' = <<>>
    /\ UNCHANGED <<pageOpen, static, dom, selectors, artifacts>>

Snapshots == [SelNames -> Outcomes]

InitTwice ==
    /\ pc = "probe"
    /\ pageOpen \in BOOLEAN
    /\ static = TRUE
    /\ dom \in Snapshots
    /\ selectors \in SelectorLists
    /\ artifacts = AllArtifacts
    /\ Idle

NextTwice == Probe \/ SecondCall

SpecTwice == InitTwice /\ [][NextTwice]_vars

\* texts long enough for the cut at PreviewLimit to fall in the filling, in
\* the trailing characters or beyond the end
FillLens == {0} \cup ((PreviewLimit - 2 * MaxAffix) .. (PreviewLimit + 1))

Affixes == SeqsUpTo(Chars, MaxAffix)

TextFamily == {p \o Fill(n) \o s : p \in Affixes, s \in Affixes, n \in FillLens}

\* one selector; it matches one element with a text of the family, alone or
\* after an element whose text is blank
InitText ==
    /\ pc = "probe"
    /\ pageOpen = TRUE
    /\ static = TRUE
    /\ \E t \in TextFamily :
         \E els \in {<<Attached(t)>>, <<Attached(BlankText), Attached(t)>>} :
            dom = [NoMatch EXCEPT !["h1"] = Matched(els)]
    /\ selectors = <<"h1">>
    /\ artifacts = AllArtifacts
    /\ Idle

SpecText == InitText /\ [][Probe]_vars

----------------------------------------------------------------------------
(* Readings of the state used by the properties *)

IsFound(l) == l.kind = "found"
IsPreview(l) == l.kind = "preview"

SelectorsOf(ls) == [k \in 1..Len(ls) |-> ls[k].selector]
TextsOf(ls) == [k \in 1..Len(ls) |-> ls[k].text]

Hit(q) == ~q.raised /\ q.count > 0

LastQuery == queried[Len(queried)]

\* the latest iteration got an answer from the page
Answered == queried # <<>> /\ ~LastQuery.raised

LoopOver == pc \in {"close", "done"}

----------------------------------------------------------------------------
\* C1: the selectors of the FOUND lines are, in order, the queried selectors
\* whose query succeeded and matched at least one element (so a selector with
\* no match and a selector whose query failed give no result); once the loop
\* is over the queried selectors are the input list; within one selector the
\* previews come in the document order of the matched elements.
C1_ResultOrder ==
    /\ SelectorsOf(SelectSeq(report, IsFound)) = SelectorsOf(SelectSeq(queried, Hit))
    /\ LoopOver => SelectorsOf(queried) = selectors
    /\ \A k \in 2..Len(emitted) :
          /\ IsPreview(emitted[k])
          /\ emitted[k].i < Len(elements)
          /\ k > 2 => emitted[k - 1].i < emitted[k].i

\* a run over two selectors: the first matches nothing, the second gives a
\* result with two previews
C1_Witness ==
    /\ pc = "done"
    /\ Len(queried) = 2
    /\ ~queried[1].raised /\ queried[1].count = 0
    /\ Len(report) = 3
    /\ Len(emitted) = 3

\* C2 (as claimed): a query made while the page handle is unavailable makes
\* the call fail.
C2_PageUnavailableSurfaces ==
    \A k \in DOMAIN queried : ~queried[k].open => pc = "failed"

\* C3: a query that raises never makes the loop fail and prints nothing; the
\* selectors after it are still queried; the report equals the report of the
\* run in which each failed query matched nothing instead.
C3_FailedQuerySilent ==
    /\ queried # <<>> => pc # "failed"
    /\ (queried # <<>> /\ LastQuery.raised) => (emitted = <<>> /\ reads = {})
    /\ report = shadow
    /\ LoopOver => Len(queried) = Len(selectors)

\* the first query fails on an open page, the second is made and gives a result
C3_Witness ==
    /\ pc = "done"
    /\ Len(queried) = 2
    /\ queried[1].raised /\ queried[1].open
    /\ Hit(queried[2])
    /\ report # <<>>

\* the preview the specification describes: newlines replaced, trimmed, then
\* truncated
NormalizedText(t) == Strip(ReplaceNewlines(t))
ClaimedPreview(t) == Truncate(NormalizedText(t), PreviewLimit)

\* C4 (as claimed): the previews of a result are the claimed previews of the
\* first preview_count elements, those with an empty normalized text left out.
C4_NormalizeThenTruncate ==
    (Answered /\ \A k \in DOMAIN elements : elements[k].attached) =>
        LET shown == ElementsToPreview(elements)
            claimed == [k \in 1..Len(shown) |-> ClaimedPreview(shown[k].text)]
        IN  TextsOf(SelectSeq(emitted, IsPreview))
                = SelectSeq(claimed, LAMBDA t : t # <<>>)

\* C5 (as claimed): when reading one element fails, the result is still
\* printed with the full count and every other element among the first
\* preview_count with a non-empty preview is still previewed.
C5_OnlyFailedElementOmitted ==
    (Answered /\ elements # <<>>) =>
        /\ emitted # <<>>
        /\ emitted[1].count = Len(elements)
        /\ \A k \in 1..Len(ElementsToPreview(elements)) :
              (elements[k].attached /\ Preview(elements[k].text) # <<>>) =>
                  \E j \in 2..Len(emitted) :
                      emitted[j].i = k - 1 /\ emitted[j].text = Preview(elements[k].text)

\* C6: no printed preview is longer than PreviewLimit and none holds a newline.
C6_PreviewBounded ==
    \A k \in DOMAIN report :
        IsPreview(report[k]) =>
            /\ Len(report[k].text) <= PreviewLimit
            /\ \A j \in DOMAIN report[k].text : report[k].text[j] # NL

\* a text longer than PreviewLimit with a newline in the part kept: the
\* preview has PreviewLimit characters
C6_Witness ==
    /\ Len(elements) = 1
    /\ Len(elements[1].text) > PreviewLimit
    /\ elements[1].text[2] = NL
    /\ Len(emitted) = 2
    /\ Len(emitted[2].text) = PreviewLimit

\* C7: a result's count is the number of elements the query matched, it has
\* at most PreviewCount previews and no more than that count, and inner_text
\* is only ever called on the first PreviewCount matched elements.
C7_CountAndPreviews ==
    /\ reads \subseteq 0..(PreviewCount - 1)
    /\ emitted # <<>> =>
          /\ IsFound(emitted[1])
          /\ emitted[1].count = Len(elements)
          /\ Len(emitted) - 1 <= PreviewCount
          /\ Len(emitted) - 1 <= emitted[1].count
          /\ \A k \in 2..Len(emitted) : IsPreview(emitted[k])

\* three matches, the first with a blank text: count 3, one preview
C7_Witness ==
    /\ Len(elements) = 3
    /\ elements[1] = Attached(BlankText)
    /\ Len(emitted) = 2
    /\ emitted[1].count = 3
    /\ reads = {0, 1}

C9_PreviewTrimmedAndIndexed ==
    /\ \A k \in DOMAIN report :
          IsPreview(report[k]) =>
              /\ report[k].text # <<>>
              /\ report[k].text[1] \notin Whitespace
              /\ report[k].text[Len(report[k].text)] \notin Whitespace
    /\ \A k \in 2..Len(emitted) :
          /\ emitted[k].i + 1 \in DOMAIN elements
          /\ elements[emitted[k].i + 1].attached
          /\ emitted[k].text = Preview(elements[emitted[k].i + 1].text)

\* the first element is left out and the second is printed with index 1; its
\* text was cut at PreviewLimit on a whitespace character
C9_Witness ==
    /\ Len(elements) = 2
    /\ Len(emitted) = 2
    /\ emitted[2].i = 1
    /\ Len(elements[2].text) > PreviewLimit
    /\ elements[2].text[PreviewLimit] \in Whitespace
    /\ elements[2].text[1] \in Whitespace

\* C10: all four artifacts exist before the first selector is queried; the
\* loop queries the selectors once each, in order; once the loop has started
\* the script reaches the end of browser.close().
C10_LoopEndsAndCloses ==
    /\ [](pc \in {"probe", "close", "done"} => artifacts = AllArtifacts)
    /\ [](pc = "probe" => SelectorsOf(queried) = SubSeq(selectors, 1, si - 1))
    /\ [](LoopOver => SelectorsOf(queried) = selectors)
    /\ (pc = "probe") ~> (pc = "done")

\* a finished run in which a query failed and an element could not be read
C10_Witness ==
    /\ pc = "done"
    /\ Len(queried) = 2
    /\ queried[1].raised
    /\ Hit(queried[2])
    /\ elements[1] = Detached
    /\ artifacts = AllArtifacts

====
